---- MODULE Spec2Model ----
(***************************************************************************)
(* Borrow-incentive transaction builders of msafe-sui-app-store            *)
(* (src/src/apps/cetus/intentions/remove-liquidity.ts): the state resolver *)
(* (requireObligationInfo, requireVeSca, getBindedVeScaKey), the methods   *)
(* that                                                                    *)
(* append one move call each, and the quick methods that compose them.     *)
(* The batch is txBlock.blockData.transactions.                            *)
(***************************************************************************)
EXTENDS Integers, Sequences, FiniteSets, TLC

VARIABLES
  owned,     \* ids of the obligations the sender owns, in the order getObligations lists them
  locked,    \* on-chain lock status of every obligation id
  bind,      \* on-chain veSCA key bound to every obligation id (None: no binding)
  batch,     \* txBlock.blockData.transactions
  last,      \* the last builder invocation: its name, arguments, the batch before it, its error
  cstage,    \* codec round trip: position in  intent -> serialize -> build -> deserialize
  intent,    \* codec round trip: the intention being round-tripped
  encoded,   \* codec round trip: intention.serialize()
  built,     \* codec round trip: the transaction built from the serialized intention
  decoded,   \* codec round trip: helper.deserialize(built)
  veScaOwned,\* keys of the veSCA accounts the sender owns, in the order getVeScas lists them
  veScaTable,\* keys for which getVeSca finds a veSCA account on chain
  probe      \* the last direct call of a resolver: its name, arguments and result

vars == <<owned, locked, bind, batch, last, cstage, intent, encoded, built, decoded,
          veScaOwned, veScaTable, probe>>
chainVars == <<owned, locked, bind>>
codecVars == <<cstage, intent, encoded, built, decoded>>
resolveVars == <<veScaOwned, veScaTable, probe>>

\* ---------------------------------------------------------------- bounds
MaxQueued == 1
MaxDigits == 2

\* ---------------------------------------------------------------- values
None == "undefined"

ObligationIds == {"0xP", "0xQ"}
ObligationKeys == {"0xK", "0xL"}
KeyOf == [id \in ObligationIds |-> IF id = "0xP" THEN "0xK" ELSE "0xL"]
BoundVeScaKeys == {"0xV"}
VeScaKeys == {"0xV", "0xW"}
RewardCoins == {"sca"}

SUI_CLOCK_OBJECT_ID == "0x6"
SUI_TYPE_ARG == "0x2::sui::SUI"

\* builder.address.get(key)
address ==
  [k \in {"borrowIncentive.id", "borrowIncentive.query", "borrowIncentive.incentivePools",
          "borrowIncentive.incentiveAccounts", "borrowIncentive.config",
          "core.obligationAccessStore", "vesca.table", "vesca.treasury", "vesca.config"}
     |-> CASE k = "borrowIncentive.id" -> "0xBI"
           [] k = "borrowIncentive.query" -> "0xBIquery"
           [] k = "borrowIncentive.incentivePools" -> "0xBIpools"
           [] k = "borrowIncentive.incentiveAccounts" -> "0xBIaccounts"
           [] k = "borrowIncentive.config" -> "0xBIconfig"
           [] k = "core.obligationAccessStore" -> "0xOAS"
           [] k = "vesca.table" -> "0xVEtable"
           [] k = "vesca.treasury" -> "0xVEtreasury"
           [] k = "vesca.config" -> "0xVEconfig"]

borrowIncentiveIds ==
  [borrowIncentivePkg |-> address["borrowIncentive.id"],
   query |-> address["borrowIncentive.query"],
   incentivePools |-> address["borrowIncentive.incentivePools"],
   incentiveAccounts |-> address["borrowIncentive.incentiveAccounts"],
   obligationAccessStore |-> address["core.obligationAccessStore"],
   config |-> address["borrowIncentive.config"]]

OldBorrowIncentiveContract ==
  [id |-> "0xc63072e7f5f4983a2efaf5bdba1480d5e7d74d57948e1c7cc436f8e22cbeb410",
   incentivePools |-> "0x64972b713ccec45ec3964809e477cea6f97350c0c50ca3aec85bb631639266ec",
   incentiveAccounts |-> "0x3c0b707068bdcea8bb859d751ad3e2149a9f83c13fcf4054ef91372a00bccdd3"]

veScaIds ==
  [table |-> address["vesca.table"],
   treasury |-> address["vesca.treasury"],
   config |-> address["vesca.config"]]

\* the constant imported from ../constants: the fixed legacy package identifier
OLD_BORROW_INCENTIVE_PROTOCOL_ID == OldBorrowIncentiveContract.id

\* builder.utils.parseCoinType(rewardCoinName)
parseCoinType(rewardCoinName) ==
  IF rewardCoinName = "sca" THEN "0x7016::sca::SCA" ELSE SUI_TYPE_ARG

\* ---------------------------------------------------------------- batch
\* `${pkg}::user::${fn}`
Target(pkg, fn) == [pkg |-> pkg, mod |-> "user", fn |-> fn]

\* txBlock.object(id): an object input holding the id
Object(id) == [kind |-> "Input", type |-> "object", value |-> id]

\* moveCall that puts the transaction in front of the queued ones
moveCall_unshift(b, target, arguments, typeArguments) ==
  <<[kind |-> "MoveCall", target |-> target,
     arguments |-> arguments, typeArguments |-> typeArguments]>> \o b

\* txBlock.moveCall({target, arguments, typeArguments}) pushes one transaction
moveCall(b, target, arguments, typeArguments) ==
  Append(b, [kind |-> "MoveCall", target |-> target,
             arguments |-> arguments, typeArguments |-> typeArguments])

\* ---------------------------------------------------------------- chain queries
\* getObligations(query, sender)
getObligations ==
  [i \in 1..Len(owned) |-> [id |-> owned[i], keyId |-> KeyOf[owned[i]], locked |-> locked[owned[i]]]]

\* getObligationLocked(query, obligationId)
getObligationLocked(obligationId) == locked[obligationId]

\* getBindedVeScaKey({address, client}, obligationId)
getBindedVeScaKey(obligationId) == bind[obligationId]

\* ---------------------------------------------------------------- resolver
\* selection that compares the id only
selectObligation_idOnly(obligations, obligationId, obligationKey) ==
  LET hits == {i \in 1..Len(obligations) : obligations[i].id = obligationId}
  IN IF hits = {} THEN obligations[1]
     ELSE obligations[CHOOSE i \in hits : \A j \in hits : i <= j]

\* obligations.find(pred) ?? obligations[0]
selectObligation(obligations, obligationId, obligationKey) ==
  LET hits == {i \in 1..Len(obligations) :
                 obligations[i].id = obligationId \/ obligations[i].keyId = obligationKey}
  IN IF hits = {} THEN obligations[1]
     ELSE obligations[CHOOSE i \in hits : \A j \in hits : i <= j]

\* requireObligationInfo without the test for an empty list of obligations
requireObligationInfo_noEmptyTest(obligationId, obligationKey) ==
  IF obligationId # None /\ obligationKey # None
  THEN [err |-> None, obligationId |-> obligationId, obligationKey |-> obligationKey,
        obligationLocked |-> getObligationLocked(obligationId)]
  ELSE LET obligations == getObligations
       IN IF Len(obligations) = 0
          THEN [err |-> None, obligationId |-> None, obligationKey |-> None,
                obligationLocked |-> FALSE]
          ELSE LET selectedObligation == selectObligation(obligations, obligationId, obligationKey)
               IN [err |-> None, obligationId |-> selectedObligation.id,
                   obligationKey |-> selectedObligation.keyId,
                   obligationLocked |-> selectedObligation.locked]

\* requireObligationInfo taking the key of the first listed obligation, not of the selected one
requireObligationInfo_firstKey(obligationId, obligationKey) ==
  IF obligationId # None /\ obligationKey # None
  THEN [err |-> None, obligationId |-> obligationId, obligationKey |-> obligationKey,
        obligationLocked |-> getObligationLocked(obligationId)]
  ELSE LET obligations == getObligations
       IN IF Len(obligations) = 0
          THEN [err |-> "NoObligationFound", obligationId |-> None, obligationKey |-> None,
                obligationLocked |-> FALSE]
          ELSE LET selectedObligation == selectObligation(obligations, obligationId, obligationKey)
               IN [err |-> None, obligationId |-> selectedObligation.id,
                   obligationKey |-> obligations[1].keyId,
                   obligationLocked |-> selectedObligation.locked]

\* requireObligationInfo(builder, txBlock, obligationId?, obligationKey?)
requireObligationInfo(obligationId, obligationKey) ==
  IF obligationId # None /\ obligationKey # None
  THEN [err |-> None, obligationId |-> obligationId, obligationKey |-> obligationKey,
        obligationLocked |-> getObligationLocked(obligationId)]
  ELSE LET obligations == getObligations
       IN IF Len(obligations) = 0
          THEN [err |-> "NoObligationFound", obligationId |-> None, obligationKey |-> None,
                obligationLocked |-> FALSE]
          ELSE LET selectedObligation == selectObligation(obligations, obligationId, obligationKey)
               IN [err |-> None, obligationId |-> selectedObligation.id,
                   obligationKey |-> selectedObligation.keyId,
                   obligationLocked |-> selectedObligation.locked]

\* a veScaKey argument (SuiAddressArg): omitted, a string id, or a transaction object argument
Undefined == [typeof |-> "undefined", value |-> None]
StringArg(key) == [typeof |-> "string", value |-> key]
ObjectArg(key) == [typeof |-> "object", value |-> key]

\* JavaScript truthiness of such an argument
Truthy(arg) == arg.typeof = "object" \/ (arg.typeof = "string" /\ arg.value # "")

\* getVeSca(query, veScaKey); a veSCA account is represented by its keyId
getVeSca(veScaKey) == IF veScaKey \in veScaTable THEN veScaKey ELSE None

\* getVeScas(query, sender)
getVeScas == veScaOwned

\* requireVeSca(builder, txBlock, veScaKey?) called with nparams parameters
requireVeSca(nparams, veScaKey) ==
  IF nparams = 3 /\ Truthy(veScaKey) /\ veScaKey.typeof = "string"
  THEN getVeSca(veScaKey.value)
  ELSE LET veScas == getVeScas
       IN IF Len(veScas) = 0 THEN None ELSE veScas[1]

\* ---------------------------------------------------------------- normal methods
\* stakeObligation with the key and the id arguments in each other's place
stakeObligation_swapped(b, obligationId, obligationKey) ==
  moveCall(b, Target(borrowIncentiveIds.borrowIncentivePkg, "stake"),
           << Object(borrowIncentiveIds.config),
              Object(borrowIncentiveIds.incentivePools),
              Object(borrowIncentiveIds.incentiveAccounts),
              Object(obligationId),
              Object(obligationKey),
              Object(borrowIncentiveIds.obligationAccessStore),
              Object(SUI_CLOCK_OBJECT_ID) >>,
           << >>)

stakeObligation(b, obligationId, obligationKey) ==
  moveCall(b, Target(borrowIncentiveIds.borrowIncentivePkg, "stake"),
           << Object(borrowIncentiveIds.config),
              Object(borrowIncentiveIds.incentivePools),
              Object(borrowIncentiveIds.incentiveAccounts),
              Object(obligationKey),
              Object(obligationId),
              Object(borrowIncentiveIds.obligationAccessStore),
              Object(SUI_CLOCK_OBJECT_ID) >>,
           << >>)

stakeObligationWithVesca(b, obligationId, obligationKey, veScaKey) ==
  moveCall(b, Target(borrowIncentiveIds.borrowIncentivePkg, "stake_with_ve_sca"),
           << Object(borrowIncentiveIds.config),
              Object(borrowIncentiveIds.incentivePools),
              Object(borrowIncentiveIds.incentiveAccounts),
              Object(obligationKey),
              Object(obligationId),
              Object(borrowIncentiveIds.obligationAccessStore),
              Object(veScaIds.config),
              Object(veScaIds.treasury),
              Object(veScaIds.table),
              Object(veScaKey),
              Object(SUI_CLOCK_OBJECT_ID) >>,
           << >>)

unstakeObligation(b, obligationId, obligationKey) ==
  moveCall(b, Target(borrowIncentiveIds.borrowIncentivePkg, "unstake"),
           << Object(borrowIncentiveIds.config),
              Object(borrowIncentiveIds.incentivePools),
              Object(borrowIncentiveIds.incentiveAccounts),
              Object(obligationKey),
              Object(obligationId),
              Object(SUI_CLOCK_OBJECT_ID) >>,
           << >>)

oldUnstakeObligation(b, obligationId, obligationKey) ==
  moveCall(b, Target(borrowIncentiveIds.borrowIncentivePkg, "unstake"),
           << Object(OldBorrowIncentiveContract.incentivePools),
              Object(OldBorrowIncentiveContract.incentiveAccounts),
              Object(obligationKey),
              Object(obligationId),
              Object(SUI_CLOCK_OBJECT_ID) >>,
           << SUI_TYPE_ARG >>)

claimBorrowIncentive(b, obligationId, obligationKey, rewardCoinName) ==
  moveCall(b, Target(borrowIncentiveIds.borrowIncentivePkg, "redeem_rewards"),
           << Object(borrowIncentiveIds.config),
              Object(borrowIncentiveIds.incentivePools),
              Object(borrowIncentiveIds.incentiveAccounts),
              Object(obligationKey),
              Object(obligationId),
              Object(SUI_CLOCK_OBJECT_ID) >>,
           << parseCoinType(rewardCoinName) >>)

oldClaimBorrowIncentive(b, obligationId, obligationKey, rewardCoinName) ==
  moveCall(b, Target(OldBorrowIncentiveContract.id, "redeem_rewards"),
           << Object(OldBorrowIncentiveContract.incentivePools),
              Object(OldBorrowIncentiveContract.incentiveAccounts),
              Object(obligationKey),
              Object(obligationId),
              Object(SUI_CLOCK_OBJECT_ID) >>,
           << parseCoinType(rewardCoinName) >>)

\* ---------------------------------------------------------------- quick methods
\* the predicate matching the legacy package's unstake target only
isUnstakeTxn_legacyOnly(txn) ==
  /\ txn.kind = "MoveCall"
  /\ txn.target = Target(OLD_BORROW_INCENTIVE_PROTOCOL_ID, "unstake")

\* the predicate both stake quick methods hand to transactions.find
isUnstakeTxn(txn) ==
  /\ txn.kind = "MoveCall"
  /\ \/ txn.target = Target(OLD_BORROW_INCENTIVE_PROTOCOL_ID, "unstake")
     \/ txn.target = Target(address["borrowIncentive.id"], "unstake")

\* !!transactions.find(pred) with a synchronous predicate
findSync(b) == \E i \in 1..Len(b) : isUnstakeTxn(b[i])

\* !!transactions.find(async pred): the predicate returns a Promise, which is
\* truthy for every element, so find yields the first transaction if there is one
findAsync(b) == \E i \in 1..Len(b) : TRUE

Ok(b) == [batch |-> b, err |-> None]
Throw(b, e) == [batch |-> b, err |-> e]

\* stakeObligationQuick that stakes whatever the lock status
stakeObligationQuick_always(b, obligation, obligationKey) ==
  LET info == requireObligationInfo(obligation, obligationKey)
  IN IF info.err # None THEN Throw(b, info.err)
     ELSE Ok(stakeObligation(b, info.obligationId, info.obligationKey))

stakeObligationQuick(b, obligation, obligationKey) ==
  LET info == requireObligationInfo(obligation, obligationKey)
  IN IF info.err # None THEN Throw(b, info.err)
     ELSE LET unstakeObligationBeforeStake == findSync(b)
          IN IF ~info.obligationLocked \/ unstakeObligationBeforeStake
             THEN Ok(stakeObligation(b, info.obligationId, info.obligationKey))
             ELSE Ok(b)

\* unstakeObligationQuick with the lock test negated
unstakeObligationQuick_inverted(b, obligation, obligationKey) ==
  LET info == requireObligationInfo(obligation, obligationKey)
  IN IF info.err # None THEN Throw(b, info.err)
     ELSE IF ~info.obligationLocked
          THEN Ok(unstakeObligation(b, info.obligationId, info.obligationKey))
          ELSE Ok(b)

\* unstakeObligationQuick without the lock test
unstakeObligationQuick_unconditional(b, obligation, obligationKey) ==
  LET info == requireObligationInfo(obligation, obligationKey)
  IN IF info.err # None THEN Throw(b, info.err)
     ELSE Ok(unstakeObligation(b, info.obligationId, info.obligationKey))

unstakeObligationQuick(b, obligation, obligationKey) ==
  LET info == requireObligationInfo(obligation, obligationKey)
  IN IF info.err # None THEN Throw(b, info.err)
     ELSE IF info.obligationLocked
          THEN Ok(unstakeObligation(b, info.obligationId, info.obligationKey))
          ELSE Ok(b)

\* stakeObligationWithVeScaQuick without the comparison of the supplied key
stakeObligationWithVeScaQuick_nocheck(b, obligation, obligationKey, veScaKey) ==
  LET info == requireObligationInfo(obligation, obligationKey)
  IN IF info.err # None THEN Throw(b, info.err)
     ELSE LET unstakeObligationBeforeStake == findAsync(b)
          IN IF ~info.obligationLocked \/ unstakeObligationBeforeStake
             THEN LET bindedVeScaKey == getBindedVeScaKey(info.obligationId)
                  IN IF bindedVeScaKey # None
                     THEN Ok(stakeObligationWithVesca(b, info.obligationId,
                                                      info.obligationKey, bindedVeScaKey))
                     ELSE Ok(stakeObligation(b, info.obligationId, info.obligationKey))
             ELSE Ok(b)

\* stakeObligationWithVeScaQuick with the else of the binding branch missing
stakeObligationWithVeScaQuick_noelse(b, obligation, obligationKey, veScaKey) ==
  LET info == requireObligationInfo(obligation, obligationKey)
  IN IF info.err # None THEN Throw(b, info.err)
     ELSE LET unstakeObligationBeforeStake == findAsync(b)
          IN IF ~info.obligationLocked \/ unstakeObligationBeforeStake
             THEN LET bindedVeScaKey == getBindedVeScaKey(info.obligationId)
                  IN IF veScaKey # None /\ veScaKey # bindedVeScaKey
                     THEN Throw(b, "BindingMismatch")
                     ELSE IF bindedVeScaKey # None
                          THEN Ok(stakeObligation(
                                    stakeObligationWithVesca(b, info.obligationId,
                                                             info.obligationKey, bindedVeScaKey),
                                    info.obligationId, info.obligationKey))
                          ELSE Ok(stakeObligation(b, info.obligationId, info.obligationKey))
             ELSE Ok(b)

\* stakeObligationWithVeScaQuick comparing the supplied key after the call is appended
stakeObligationWithVeScaQuick_latecheck(b, obligation, obligationKey, veScaKey) ==
  LET info == requireObligationInfo(obligation, obligationKey)
  IN IF info.err # None THEN Throw(b, info.err)
     ELSE LET unstakeObligationBeforeStake == findAsync(b)
          IN IF ~info.obligationLocked \/ unstakeObligationBeforeStake
             THEN LET bindedVeScaKey == getBindedVeScaKey(info.obligationId)
                      staked == IF bindedVeScaKey # None
                                THEN stakeObligationWithVesca(b, info.obligationId,
                                                              info.obligationKey, bindedVeScaKey)
                                ELSE stakeObligation(b, info.obligationId, info.obligationKey)
                  IN IF veScaKey # None /\ veScaKey # bindedVeScaKey
                     THEN Throw(staked, "BindingMismatch")
                     ELSE Ok(staked)
             ELSE Ok(b)

\* stakeObligationWithVeScaQuick that stakes without the bound veSCA key
stakeObligationWithVeScaQuick_plainOnly(b, obligation, obligationKey, veScaKey) ==
  LET info == requireObligationInfo(obligation, obligationKey)
  IN IF info.err # None THEN Throw(b, info.err)
     ELSE LET unstakeObligationBeforeStake == findAsync(b)
          IN IF ~info.obligationLocked \/ unstakeObligationBeforeStake
             THEN LET bindedVeScaKey == getBindedVeScaKey(info.obligationId)
                  IN IF veScaKey # None /\ veScaKey # bindedVeScaKey
                     THEN Throw(b, "BindingMismatch")
                     ELSE Ok(stakeObligation(b, info.obligationId, info.obligationKey))
             ELSE Ok(b)

stakeObligationWithVeScaQuick(b, obligation, obligationKey, veScaKey) ==
  LET info == requireObligationInfo(obligation, obligationKey)
  IN IF info.err # None THEN Throw(b, info.err)
     ELSE LET unstakeObligationBeforeStake == findAsync(b)
          IN IF ~info.obligationLocked \/ unstakeObligationBeforeStake
             THEN LET bindedVeScaKey == getBindedVeScaKey(info.obligationId)
                  IN IF veScaKey # None /\ veScaKey # bindedVeScaKey
                     THEN Throw(b, "BindingMismatch")
                     ELSE IF bindedVeScaKey # None
                          THEN Ok(stakeObligationWithVesca(b, info.obligationId,
                                                           info.obligationKey, bindedVeScaKey))
                          ELSE Ok(stakeObligation(b, info.obligationId, info.obligationKey))
             ELSE Ok(b)

claimBorrowIncentiveQuick(b, rewardCoinName, obligation, obligationKey) ==
  Ok(claimBorrowIncentive(b, obligation, obligationKey, rewardCoinName))

\* ---------------------------------------------------------------- intention codec
\* Strings are sequences of one-character strings.
DigitChars == <<"0", "1", "2", "3", "4", "5", "6", "7", "8", "9">>

DigitVal(c) == CHOOSE d \in 0..9 : DigitChars[d + 1] = c

\* the u64 value of a decimal string
RECURSIVE ParseNat(_)
ParseNat(str) ==
  IF Len(str) = 0 THEN 0
  ELSE ParseNat(SubSeq(str, 1, Len(str) - 1)) * 10 + DigitVal(str[Len(str)])

\* the decimal string of a u64 value
RECURSIVE FormatNat(_)
FormatNat(n) ==
  IF n < 10 THEN <<DigitChars[n + 1]>>
  ELSE Append(FormatNat(n \div 10), DigitChars[(n % 10) + 1])

\* intention.serialize(): JSON.stringify of the intention data {amount}
serialize(intention) ==
  <<"{", "\"", "a", "m", "o", "u", "n", "t", "\"", ":", "\"">>
    \o intention.data.amount \o <<"\"", "}">>

\* fromData(JSON.parse(text)): the amount is the quoted value after the colon
parseIntentionData(text) ==
  LET colon == CHOOSE i \in 1..Len(text) : text[i] = ":" /\ \A j \in 1..(i - 1) : text[j] # ":"
  IN [amount |-> SubSeq(text, colon + 2, Len(text) - 2)]

StSuiPackage == "0xstsui"

\* the transaction built for an intention: split the amount off a coin, hand the coin
\* to liquid_staking::mint or ::redeem, transfer the result to the sender
buildFrom(txSubType, text) ==
  LET data == parseIntentionData(text)
  IN << [kind |-> "SplitCoins", amounts |-> <<ParseNat(data.amount)>>],
        [kind |-> "MoveCall",
         target |-> [pkg |-> StSuiPackage, mod |-> "liquid_staking", fn |-> txSubType]],
        [kind |-> "TransferObjects"] >>

\* the mutant of deserialize: every transaction is classified as a mint
deserialize_mintOnly(transaction) ==
  LET splits == {i \in 1..Len(transaction) : transaction[i].kind = "SplitCoins"}
  IN IF splits = {} THEN [err |-> "UnknownIntention"]
     ELSE [err |-> None, txType |-> "Other", txSubType |-> "mint",
           intentionData |-> [amount |-> FormatNat(transaction[CHOOSE i \in splits : TRUE].amounts[1])]]

\* helper.deserialize({transaction}): the action kind from the move call's target, the
\* amount from the split
deserialize(transaction) ==
  LET calls == {i \in 1..Len(transaction) :
                  /\ transaction[i].kind = "MoveCall"
                  /\ transaction[i].target.pkg = StSuiPackage
                  /\ transaction[i].target.mod = "liquid_staking"
                  /\ transaction[i].target.fn \in {"mint", "redeem"}}
      splits == {i \in 1..Len(transaction) : transaction[i].kind = "SplitCoins"}
  IN IF calls = {} \/ splits = {} THEN [err |-> "UnknownIntention"]
     ELSE [err |-> None, txType |-> "Other",
           txSubType |-> transaction[CHOOSE i \in calls : TRUE].target.fn,
           intentionData |-> [amount |-> FormatNat(transaction[CHOOSE i \in splits : TRUE].amounts[1])]]

\* ---------------------------------------------------------------- state machine
NormalOps == {"stakeObligation", "stakeObligationWithVesca", "unstakeObligation",
              "oldUnstakeObligation", "claimBorrowIncentive", "oldClaimBorrowIncentive"}
QuickOps == {"stakeObligationQuick", "unstakeObligationQuick",
             "stakeObligationWithVeScaQuick", "claimBorrowIncentiveQuick"}

Invocation(op, obligation, obligationKey, veScaKey, rewardCoinName, before, err) ==
  [op |-> op, obligation |-> obligation, obligationKey |-> obligationKey,
   veScaKey |-> veScaKey, rewardCoinName |-> rewardCoinName, before |-> before, err |-> err]

\* listings of the sender's obligations: none, one, two ("0xP" names the first listed)
OwnedLists == {<< >>, <<"0xP">>, <<"0xP", "0xQ">>}

\* the (obligation, obligationKey) arguments handed to a quick method: neither, the id
\* alone, the key alone, both of one obligation, both of different obligations
PositionRefs ==
  {<<None, None>>, <<"0xP", None>>, <<"0xQ", None>>, <<None, "0xL">>,
   <<"0xQ", "0xL">>, <<"0xP", "0xL">>}

\* the bind table is keyed by the veSCA key: a key is bound to at most one obligation
Bindings ==
  {f \in [ObligationIds -> BoundVeScaKeys \cup {None}] :
     \A a \in ObligationIds, c \in ObligationIds : (f[a] # None /\ f[a] = f[c]) => a = c}

\* the record of a direct resolver call
Probe(fn, obligationId, obligationKey, nparams, veScaKey, info, veSca) ==
  [fn |-> fn, obligationId |-> obligationId, obligationKey |-> obligationKey,
   nparams |-> nparams, veScaKey |-> veScaKey, info |-> info, veSca |-> veSca]

NoInfo == [err |-> None, obligationId |-> None, obligationKey |-> None, obligationLocked |-> FALSE]

CodecIdle ==
  /\ cstage = "idle"
  /\ intent = None
  /\ encoded = << >>
  /\ built = << >>
  /\ decoded = None

\* no resolver has been called directly; the sender owns no veSCA
ResolveIdle ==
  /\ veScaOwned = << >>
  /\ veScaTable = {}
  /\ probe = Probe("none", None, None, 0, Undefined, NoInfo, None)

Init ==
  /\ owned \in OwnedLists
  /\ locked \in [ObligationIds -> BOOLEAN]
  /\ bind \in Bindings
  /\ batch = << >>
  /\ last = Invocation("none", None, None, None, None, << >>, None)
  /\ CodecIdle
  /\ ResolveIdle

Finish(op, obligation, obligationKey, veScaKey, rewardCoinName, r) ==
  /\ batch' = r.batch
  /\ last' = Invocation(op, obligation, obligationKey, veScaKey, rewardCoinName, batch, r.err)
  /\ UNCHANGED chainVars
  /\ UNCHANGED resolveVars
  /\ UNCHANGED codecVars

CallStakeObligation ==
  /\ Len(batch) <= MaxQueued
  /\ \E id \in ObligationIds :
       Finish("stakeObligation", id, KeyOf[id], None, None,
              Ok(stakeObligation(batch, id, KeyOf[id])))

CallStakeObligationWithVesca ==
  /\ Len(batch) <= MaxQueued
  /\ \E id \in ObligationIds, v \in BoundVeScaKeys :
       Finish("stakeObligationWithVesca", id, KeyOf[id], v, None,
              Ok(stakeObligationWithVesca(batch, id, KeyOf[id], v)))

CallUnstakeObligation ==
  /\ Len(batch) <= MaxQueued
  /\ \E id \in ObligationIds :
       Finish("unstakeObligation", id, KeyOf[id], None, None,
              Ok(unstakeObligation(batch, id, KeyOf[id])))

CallOldUnstakeObligation ==
  /\ Len(batch) <= MaxQueued
  /\ \E id \in ObligationIds :
       Finish("oldUnstakeObligation", id, KeyOf[id], None, None,
              Ok(oldUnstakeObligation(batch, id, KeyOf[id])))

CallClaimBorrowIncentive ==
  /\ Len(batch) <= MaxQueued
  /\ \E id \in ObligationIds, coin \in RewardCoins :
       Finish("claimBorrowIncentive", id, KeyOf[id], None, coin,
              Ok(claimBorrowIncentive(batch, id, KeyOf[id], coin)))

CallOldClaimBorrowIncentive ==
  /\ Len(batch) <= MaxQueued
  /\ \E id \in ObligationIds, coin \in RewardCoins :
       Finish("oldClaimBorrowIncentive", id, KeyOf[id], None, coin,
              Ok(oldClaimBorrowIncentive(batch, id, KeyOf[id], coin)))

CallStakeObligationQuick ==
  /\ Len(batch) <= MaxQueued
  /\ \E ref \in PositionRefs :
       Finish("stakeObligationQuick", ref[1], ref[2], None, None,
              stakeObligationQuick(batch, ref[1], ref[2]))

CallUnstakeObligationQuick ==
  /\ Len(batch) <= MaxQueued
  /\ \E ref \in PositionRefs :
       Finish("unstakeObligationQuick", ref[1], ref[2], None, None,
              unstakeObligationQuick(batch, ref[1], ref[2]))

CallStakeObligationWithVeScaQuick ==
  /\ Len(batch) <= MaxQueued
  /\ \E ref \in PositionRefs, v \in VeScaKeys \cup {None} :
       Finish("stakeObligationWithVeScaQuick", ref[1], ref[2], v, None,
              stakeObligationWithVeScaQuick(batch, ref[1], ref[2], v))

CallClaimBorrowIncentiveQuick ==
  /\ Len(batch) <= MaxQueued
  /\ \E id \in ObligationIds \cup {None}, coin \in RewardCoins :
       LET key == IF id = None THEN None ELSE KeyOf[id]
       IN Finish("claimBorrowIncentiveQuick", id, key, None, coin,
                 claimBorrowIncentiveQuick(batch, coin, id, key))

Next ==
  \/ CallStakeObligationQuick
  \/ CallUnstakeObligationQuick
  \/ CallStakeObligationWithVeScaQuick
  \/ CallClaimBorrowIncentiveQuick
  \/ CallStakeObligation
  \/ CallStakeObligationWithVesca
  \/ CallUnstakeObligation
  \/ CallOldUnstakeObligation
  \/ CallClaimBorrowIncentive
  \/ CallOldClaimBorrowIncentive

Spec == Init /\ [][Next]_vars

\* ---------------------------------------------------------------- codec state machine
\* amounts: decimal strings of at most MaxDigits digits, without leading zeros
Amounts ==
  {str \in UNION {[1..k -> {DigitChars[d] : d \in 1..10}] : k \in 1..MaxDigits} :
     Len(str) = 1 \/ str[1] # "0"}

Intentions == [txSubType : {"mint", "redeem"}, data : [amount : Amounts]]

InitCodec ==
  /\ owned = << >>
  /\ locked = [id \in ObligationIds |-> FALSE]
  /\ bind = [id \in ObligationIds |-> None]
  /\ batch = << >>
  /\ last = Invocation("none", None, None, None, None, << >>, None)
  /\ cstage = "intent"
  /\ intent \in Intentions
  /\ encoded = << >>
  /\ built = << >>
  /\ decoded = None
  /\ ResolveIdle

Serialize ==
  /\ cstage = "intent"
  /\ encoded' = serialize(intent)
  /\ cstage' = "encoded"
  /\ UNCHANGED <<intent, built, decoded, batch, last>>
  /\ UNCHANGED chainVars
  /\ UNCHANGED resolveVars

Build ==
  /\ cstage = "encoded"
  /\ built' = buildFrom(intent.txSubType, encoded)
  /\ cstage' = "built"
  /\ UNCHANGED <<intent, encoded, decoded, batch, last>>
  /\ UNCHANGED chainVars
  /\ UNCHANGED resolveVars

Deserialize ==
  /\ cstage = "built"
  /\ decoded' = deserialize(built)
  /\ cstage' = "decoded"
  /\ UNCHANGED <<intent, encoded, built, batch, last>>
  /\ UNCHANGED chainVars
  /\ UNCHANGED resolveVars

NextCodec == Serialize \/ Build \/ Deserialize

SpecCodec == InitCodec /\ [][NextCodec]_vars

\* ---------------------------------------------------------------- resolver state machine
\* listings of the sender's obligations, in either order
ResolveOwnedLists == {<< >>, <<"0xP">>, <<"0xQ">>, <<"0xP", "0xQ">>, <<"0xQ", "0xP">>}

\* listings of the sender's veSCA accounts, in either order
VeScaLists == {<< >>, <<"0xV">>, <<"0xW">>, <<"0xV", "0xW">>, <<"0xW", "0xV">>}

\* the veScaKey arguments a caller can pass
VeScaKeyArgs == {Undefined} \cup {StringArg(k) : k \in VeScaKeys} \cup {ObjectArg(k) : k \in VeScaKeys}

InitResolve ==
  /\ owned \in ResolveOwnedLists
  /\ locked \in [ObligationIds -> BOOLEAN]
  /\ bind = [id \in ObligationIds |-> None]
  /\ batch = << >>
  /\ last = Invocation("none", None, None, None, None, << >>, None)
  /\ CodecIdle
  /\ veScaOwned \in VeScaLists
  /\ veScaTable \in {t \in SUBSET VeScaKeys : \A i \in 1..Len(veScaOwned) : veScaOwned[i] \in t}
  /\ probe = Probe("none", None, None, 0, Undefined, NoInfo, None)

CallRequireObligationInfo ==
  /\ \E obligationId \in ObligationIds \cup {None}, obligationKey \in ObligationKeys \cup {None} :
       probe' = Probe("requireObligationInfo", obligationId, obligationKey, 4, Undefined,
                      requireObligationInfo(obligationId, obligationKey), None)
  /\ UNCHANGED <<batch, last, veScaOwned, veScaTable>>
  /\ UNCHANGED chainVars
  /\ UNCHANGED codecVars

CallRequireVeSca ==
  /\ \E nparams \in {2, 3}, veScaKey \in VeScaKeyArgs :
       /\ nparams = 2 => veScaKey = Undefined
       /\ probe' = Probe("requireVeSca", None, None, nparams, veScaKey, NoInfo,
                         requireVeSca(nparams, veScaKey))
  /\ UNCHANGED <<batch, last, veScaOwned, veScaTable>>
  /\ UNCHANGED chainVars
  /\ UNCHANGED codecVars

NextResolve == CallRequireObligationInfo \/ CallRequireVeSca

SpecResolve == InitResolve /\ [][NextResolve]_vars

TypeOK ==
  /\ owned \in OwnedLists
  /\ Len(batch) <= MaxQueued + 1
  /\ last.err \in {None, "NoObligationFound", "BindingMismatch"}
  /\ \A i \in 1..Len(batch) : batch[i].kind = "MoveCall"

\* ---------------------------------------------------------------- properties
\* the position the last quick invocation resolved from its arguments
Resolved == requireObligationInfo(last.obligation, last.obligationKey)

\* the last invocation appended exactly one call and kept the calls before it
AppendedOne == Len(batch) = Len(last.before) + 1 /\ SubSeq(batch, 1, Len(last.before)) = last.before

\* the call the last invocation appended
NewCall == batch[Len(batch)]

\* a queued call to a function named unstake, of either generation
HasUnstakeCall(b) == \E i \in 1..Len(b) : b[i].kind = "MoveCall" /\ b[i].target.fn = "unstake"

PositionLocked(id) == locked[id]

\* the supplied veSCA key differs from the binding of the resolved position
KeyDiffers ==
  /\ last.op = "stakeObligationWithVeScaQuick"
  /\ Resolved.err = None
  /\ last.veScaKey # None
  /\ last.veScaKey # bind[Resolved.obligationId]

\* C1: stakeObligationQuick for a position resolved as locked, on a batch with no
\* queued unstake call, appends nothing: the batch equals the batch before it.
C1_StakeQuickLockedAppendsNothing ==
  (/\ last.op = "stakeObligationQuick"
   /\ Resolved.err = None
   /\ Resolved.obligationLocked
   /\ ~HasUnstakeCall(last.before))
  => (batch = last.before /\ last.err = None)

C1_Witness ==
  /\ last.op = "stakeObligationQuick"
  /\ Resolved.err = None
  /\ Resolved.obligationLocked
  /\ ~HasUnstakeCall(last.before)
  /\ Len(last.before) > 0
  /\ batch = last.before

\* C2: stakeObligationQuick for a position resolved as unlocked appends exactly one
\* call, to <current package>::user::stake, with the arguments config, incentivePools,
\* incentiveAccounts, key, id, obligationAccessStore, clock in this order, the key and
\* the id being those of the resolved position.
C2_StakeQuickUnlockedAppendsStake ==
  (/\ last.op = "stakeObligationQuick"
   /\ Resolved.err = None
   /\ ~Resolved.obligationLocked)
  => /\ last.err = None
     /\ AppendedOne
     /\ NewCall.kind = "MoveCall"
     /\ NewCall.target = [pkg |-> address["borrowIncentive.id"], mod |-> "user", fn |-> "stake"]
     /\ NewCall.arguments =
          << Object(address["borrowIncentive.config"]),
             Object(address["borrowIncentive.incentivePools"]),
             Object(address["borrowIncentive.incentiveAccounts"]),
             Object(Resolved.obligationKey),
             Object(Resolved.obligationId),
             Object(address["core.obligationAccessStore"]),
             Object("0x6") >>

C2_Witness ==
  /\ last.op = "stakeObligationQuick"
  /\ last.obligation = None /\ last.obligationKey = None
  /\ Resolved.err = None
  /\ ~Resolved.obligationLocked
  /\ Resolved.obligationId = "0xP" /\ Resolved.obligationKey = "0xK"
  /\ last.before = << >>
  /\ Len(batch) = 1
  /\ NewCall.target.fn = "stake"

\* C3: unstakeObligationQuick appends nothing when the position resolves as unlocked,
\* and exactly one unstake call for the resolved position when it resolves as locked,
\* whatever the batch holds.
C3_UnstakeQuickFollowsLock ==
  (last.op = "unstakeObligationQuick" /\ Resolved.err = None)
  => /\ last.err = None
     /\ IF Resolved.obligationLocked
        THEN /\ AppendedOne
             /\ NewCall.kind = "MoveCall"
             /\ NewCall.target.fn = "unstake"
             /\ Len(NewCall.arguments) = 6
             /\ NewCall.arguments[4] = Object(Resolved.obligationKey)
             /\ NewCall.arguments[5] = Object(Resolved.obligationId)
        ELSE batch = last.before

C3_Witness ==
  /\ last.op = "unstakeObligationQuick"
  /\ Resolved.err = None
  /\ Resolved.obligationLocked
  /\ Len(last.before) > 0
  /\ Len(batch) = Len(last.before) + 1
  /\ NewCall.target.fn = "unstake"

\* C4 as stated: a supplied veSCA key that differs from the binding of the resolved
\* position makes stakeObligationWithVeScaQuick fail with BindingMismatch and leave
\* the batch unchanged, for every lock status and every batch.
C4_MismatchAlwaysFails ==
  KeyDiffers => (last.err = "BindingMismatch" /\ batch = last.before)

\* C4 amended: with a supplied veSCA key that differs from the binding of the resolved
\* position, stakeObligationWithVeScaQuick leaves the batch unchanged; it fails with
\* BindingMismatch whenever the position is unlocked or an unstake call is queued, and
\* returns without error for a locked position and an empty batch.
C4_MismatchFailsWhenTriggered ==
  KeyDiffers
  => /\ batch = last.before
     /\ (~Resolved.obligationLocked \/ HasUnstakeCall(last.before))
          => last.err = "BindingMismatch"
     /\ (Resolved.obligationLocked /\ last.before = << >>) => last.err = None

C4_Witness ==
  /\ KeyDiffers
  /\ bind[Resolved.obligationId] # None
  /\ Resolved.obligationLocked
  /\ HasUnstakeCall(last.before)
  /\ last.err = "BindingMismatch"
  /\ batch = last.before

\* C5: stakeObligationWithVeScaQuick appends a call if and only if the resolved
\* position is unlocked or an unstake call is already queued in the batch.
C5_VeScaQuickSameTrigger ==
  (last.op = "stakeObligationWithVeScaQuick" /\ last.err = None)
  => ((batch # last.before) <=> (~Resolved.obligationLocked \/ HasUnstakeCall(last.before)))

\* C6 as stated: no quick method appends an unstake call or a claim call for a
\* position that is not locked.
C6_NoUnstakeOrClaimWhenUnlocked ==
  (/\ last.op \in QuickOps
   /\ Len(batch) > Len(last.before)
   /\ NewCall.target.fn \in {"unstake", "redeem_rewards"}
   /\ NewCall.arguments[5].value \in ObligationIds)
  => PositionLocked(NewCall.arguments[5].value)

\* C6 amended: no quick method appends an unstake call for a position that is not
\* locked (claim calls are appended whatever the lock status).
C6_NoUnstakeWhenUnlocked ==
  (/\ last.op \in QuickOps
   /\ Len(batch) > Len(last.before)
   /\ NewCall.target.fn = "unstake")
  => (NewCall.arguments[5].value \in ObligationIds /\ PositionLocked(NewCall.arguments[5].value))

C6_Witness ==
  /\ last.op = "unstakeObligationQuick"
  /\ Len(batch) > Len(last.before)
  /\ NewCall.target.fn = "unstake"
  /\ PositionLocked(NewCall.arguments[5].value)
  /\ \E id \in ObligationIds : ~locked[id]

\* the values of the object arguments of a call
ArgValues(c) == {c.arguments[i].value : i \in 1..Len(c.arguments)}

CurrentPoolIds == {address["borrowIncentive.incentivePools"], address["borrowIncentive.incentiveAccounts"]}
LegacyPoolIds == {OldBorrowIncentiveContract.incentivePools, OldBorrowIncentiveContract.incentiveAccounts}

\* C7: every queued call uses the identifiers of one generation: the current package
\* with the registry's pools and accounts, or the legacy package with the hard-coded
\* legacy pools and accounts, never the package of one with the pools of the other.
C7_OneGenerationPerCall ==
  \A i \in 1..Len(batch) :
    /\ batch[i].target.pkg \in {address["borrowIncentive.id"], OldBorrowIncentiveContract.id}
    /\ batch[i].target.pkg = address["borrowIncentive.id"]
         => (CurrentPoolIds \subseteq ArgValues(batch[i]) /\ ArgValues(batch[i]) \cap LegacyPoolIds = {})
    /\ batch[i].target.pkg = OldBorrowIncentiveContract.id
         => (LegacyPoolIds \subseteq ArgValues(batch[i]) /\ ArgValues(batch[i]) \cap CurrentPoolIds = {})

\* C8: one invocation of a quick method lengthens the batch by at most one call.
C8_QuickAppendsAtMostOne ==
  last.op \in QuickOps => (Len(batch) - Len(last.before)) \in {0, 1}

C8_Witness ==
  /\ last.op = "stakeObligationWithVeScaQuick"
  /\ Resolved.err = None
  /\ bind[Resolved.obligationId] # None
  /\ Len(last.before) > 0
  /\ Len(batch) = Len(last.before) + 1

\* C9: when a quick method fails (no obligation found, or binding mismatch), the batch
\* is the batch before the invocation: earlier calls are kept, nothing is appended.
C9_FailureLeavesBatch ==
  (last.op \in QuickOps /\ last.err # None) => batch = last.before

C9_Witness ==
  /\ last.op = "stakeObligationWithVeScaQuick"
  /\ last.err = "BindingMismatch"
  /\ Len(last.before) > 0
  /\ batch = last.before

C9_WitnessNoObligation ==
  /\ last.op \in QuickOps
  /\ last.err = "NoObligationFound"
  /\ Len(last.before) > 0
  /\ batch = last.before

\* the characters of {"amount":"10000000"}, the serialization the tests expect
TestVector ==
  <<"{", "\"", "a", "m", "o", "u", "n", "t", "\"", ":", "\"",
    "1", "0", "0", "0", "0", "0", "0", "0", "\"", "}">>

\* C10: deserializing the transaction built from a serialized intention gives back the
\* intention's action kind and its amount; the intention {amount: "10000000"} serializes
\* to {"amount":"10000000"} and its mint and redeem transactions deserialize to it.
C10_RoundTrip ==
  /\ cstage = "decoded"
       => /\ decoded.err = None
          /\ decoded.txType = "Other"
          /\ decoded.txSubType = intent.txSubType
          /\ decoded.intentionData = intent.data
  /\ cstage = "encoded"
       => \A kind \in {"mint", "redeem"} :
            LET x == [txSubType |-> kind, data |-> [amount |-> SubSeq(TestVector, 12, 19)]]
            IN /\ serialize(x) = TestVector
               /\ deserialize(buildFrom(kind, serialize(x))) =
                    [err |-> None, txType |-> "Other", txSubType |-> kind,
                     intentionData |-> x.data]

C10_Witness ==
  /\ cstage = "decoded"
  /\ intent.txSubType = "redeem"
  /\ Len(intent.data.amount) = MaxDigits
  /\ decoded.err = None
  /\ decoded.intentionData.amount = intent.data.amount

\* C11: claimBorrowIncentiveQuick resolves the position and then appends exactly one
\* claim call whatever the lock status; called without a position reference, the call's
\* key and id arguments are those of the sender's resolved position, and it fails with
\* NoObligationFound when the sender owns no obligation.
C11_ClaimQuickResolves ==
  (last.op = "claimBorrowIncentiveQuick" /\ last.obligation = None /\ last.obligationKey = None)
  => IF Len(owned) = 0
     THEN last.err = "NoObligationFound" /\ batch = last.before
     ELSE /\ last.err = None
          /\ AppendedOne
          /\ NewCall.target.fn = "redeem_rewards"
          /\ NewCall.arguments[4] = Object(KeyOf[owned[1]])
          /\ NewCall.arguments[5] = Object(owned[1])

\* a queued unstake call built by oldUnstakeObligation: it carries the legacy type argument
IsLegacyUnstake(c) == c.kind = "MoveCall" /\ c.target.fn = "unstake" /\ c.typeArguments = <<"0x2::sui::SUI">>

\* a queued unstake call built by unstakeObligation
IsCurrentUnstake(c) == c.kind = "MoveCall" /\ c.target.fn = "unstake" /\ c.typeArguments = << >>

\* C12: with an unstake call of either builder (unstakeObligation, oldUnstakeObligation)
\* queued earlier in the batch, stakeObligationQuick on a position that resolves as
\* locked appends exactly one stake call for it, after the queued unstake.
C12_StakeAfterQueuedUnstake ==
  (/\ last.op = "stakeObligationQuick"
   /\ Resolved.err = None
   /\ Resolved.obligationLocked
   /\ \E i \in 1..Len(last.before) : IsLegacyUnstake(last.before[i]) \/ IsCurrentUnstake(last.before[i]))
  => /\ last.err = None
     /\ AppendedOne
     /\ NewCall.target = [pkg |-> address["borrowIncentive.id"], mod |-> "user", fn |-> "stake"]
     /\ NewCall.arguments[4] = Object(Resolved.obligationKey)
     /\ NewCall.arguments[5] = Object(Resolved.obligationId)
     /\ \E i \in 1..(Len(batch) - 1) : batch[i].target.fn = "unstake"

\* the legacy builder's unstake, then the stake
C12_Witness ==
  /\ last.op = "stakeObligationQuick"
  /\ Resolved.err = None
  /\ Resolved.obligationLocked
  /\ Len(batch) = 2
  /\ IsLegacyUnstake(batch[1])
  /\ batch[1].arguments[4] = Object(Resolved.obligationId)
  /\ batch[2].target.fn = "stake"
  /\ batch[2].arguments[5] = Object(Resolved.obligationId)

\* the current builder's unstake, then the stake
C12_WitnessCurrent ==
  /\ last.op = "stakeObligationQuick"
  /\ Resolved.err = None
  /\ Resolved.obligationLocked
  /\ Len(batch) = 2
  /\ IsCurrentUnstake(batch[1])
  /\ batch[1].arguments[5] = Object(Resolved.obligationId)
  /\ batch[2].target.fn = "stake"
  /\ batch[2].arguments[5] = Object(Resolved.obligationId)

\* the obligation id argument of a queued unstake call (the legacy call has no config argument)
UnstakePosition(c) ==
  IF Len(c.arguments) = 6 THEN c.arguments[5].value ELSE c.arguments[4].value

\* an unstake call for the obligation id is queued in the batch
HasUnstakeCallFor(b, id) ==
  \E i \in 1..Len(b) : b[i].kind = "MoveCall" /\ b[i].target.fn = "unstake" /\ UnstakePosition(b[i]) = id

\* C13: the queued-unstake exception of stakeObligationQuick is per position: for a
\* locked position and a batch whose queued unstake calls are all for other positions,
\* stakeObligationQuick appends nothing.
C13_UnstakeOfOtherPosition ==
  (/\ last.op = "stakeObligationQuick"
   /\ Resolved.err = None
   /\ Resolved.obligationLocked
   /\ HasUnstakeCall(last.before)
   /\ ~HasUnstakeCallFor(last.before, Resolved.obligationId))
  => batch = last.before

\* the quick methods that call requireObligationInfo
ResolvingOps == {"stakeObligationQuick", "unstakeObligationQuick", "stakeObligationWithVeScaQuick"}

\* C15 as stated: for a sender who owns no obligation, every resolving quick method
\* fails with NoObligationFound and appends nothing, whichever of id and key is supplied.
C15_NoObligationAlwaysFails ==
  (last.op \in ResolvingOps /\ Len(owned) = 0)
  => (last.err = "NoObligationFound" /\ batch = last.before)

\* C15 amended: for a sender who owns no obligation, a resolving quick method called
\* with the id or the key omitted fails with NoObligationFound and appends nothing;
\* called with both, it resolves to the pair as given and does not fail with
\* NoObligationFound.
C15_NoObligationFailsWhenEnumerating ==
  (last.op \in ResolvingOps /\ Len(owned) = 0)
  => IF last.obligation = None \/ last.obligationKey = None
     THEN last.err = "NoObligationFound" /\ batch = last.before
     ELSE /\ last.err # "NoObligationFound"
          /\ Resolved.err = None
          /\ Resolved.obligationId = last.obligation
          /\ Resolved.obligationKey = last.obligationKey

C15_Witness ==
  /\ last.op \in ResolvingOps
  /\ Len(owned) = 0
  /\ last.obligation # None
  /\ last.obligationKey = None
  /\ last.err = "NoObligationFound"
  /\ Len(last.before) > 0
  /\ batch = last.before

\* C16: when stakeObligationWithVeScaQuick is triggered (the position is unlocked or an
\* unstake call is queued) and raises no mismatch: with a binding it appends exactly
\* one stake_with_ve_sca call whose veSCA key argument is the bound key; with no
\* binding (and then no supplied key) it appends exactly one plain stake call.
C16_VeScaQuickUsesBinding ==
  (/\ last.op = "stakeObligationWithVeScaQuick"
   /\ Resolved.err = None
   /\ last.err = None
   /\ (~Resolved.obligationLocked \/ HasUnstakeCall(last.before)))
  => /\ AppendedOne
     /\ NewCall.arguments[4] = Object(Resolved.obligationKey)
     /\ NewCall.arguments[5] = Object(Resolved.obligationId)
     /\ IF bind[Resolved.obligationId] # None
        THEN /\ NewCall.target = [pkg |-> address["borrowIncentive.id"], mod |-> "user",
                                  fn |-> "stake_with_ve_sca"]
             /\ Len(NewCall.arguments) = 11
             /\ NewCall.arguments[10] = Object(bind[Resolved.obligationId])
             /\ last.veScaKey \in {None, bind[Resolved.obligationId]}
        ELSE /\ last.veScaKey = None
             /\ NewCall.target = [pkg |-> address["borrowIncentive.id"], mod |-> "user",
                                  fn |-> "stake"]
             /\ Len(NewCall.arguments) = 7

\* a bound position, no key supplied: the bound key is used
C16_Witness ==
  /\ last.op = "stakeObligationWithVeScaQuick"
  /\ Resolved.err = None
  /\ last.err = None
  /\ last.veScaKey = None
  /\ ~Resolved.obligationLocked
  /\ bind[Resolved.obligationId] = "0xV"
  /\ Len(batch) = Len(last.before) + 1
  /\ NewCall.target.fn = "stake_with_ve_sca"
  /\ NewCall.arguments[10] = Object("0xV")

\* an unbound position, no key supplied: a plain stake
C16_WitnessPlain ==
  /\ last.op = "stakeObligationWithVeScaQuick"
  /\ Resolved.err = None
  /\ last.err = None
  /\ last.veScaKey = None
  /\ ~Resolved.obligationLocked
  /\ bind[Resolved.obligationId] = None
  /\ Len(batch) = Len(last.before) + 1
  /\ NewCall.target.fn = "stake"

\* C17: the batch is append-only: after every normal or quick method the calls that
\* were in the batch before it are an unchanged prefix of the batch.
C17_AppendOnly ==
  last.op \in NormalOps \cup QuickOps
  => /\ Len(batch) >= Len(last.before)
     /\ \A i \in 1..Len(last.before) : batch[i] = last.before[i]

C17_Witness ==
  /\ last.op \in NormalOps
  /\ Len(last.before) > 0
  /\ Len(batch) = Len(last.before) + 1
  /\ batch[1] = last.before[1]
  /\ batch[Len(batch)] # batch[1]

C17_WitnessQuick ==
  /\ last.op \in QuickOps
  /\ Len(last.before) > 0
  /\ Len(batch) = Len(last.before) + 1
  /\ batch[1] = last.before[1]
  /\ batch[Len(batch)] # batch[1]

\* a queued stake or stake_with_ve_sca call for the obligation id
IsStakeFor(c, id) ==
  c.kind = "MoveCall" /\ c.target.fn \in {"stake", "stake_with_ve_sca"} /\ c.arguments[5].value = id

IsUnstakeFor(c, id) ==
  c.kind = "MoveCall" /\ c.target.fn = "unstake" /\ UnstakePosition(c) = id

\* C18 as stated: when stakeObligationQuick appends a stake call for a position, no
\* stake call for that position is already queued without an unstake call for it
\* queued after it.
C18_NoRedundantStake ==
  (/\ last.op = "stakeObligationQuick"
   /\ Len(batch) > Len(last.before))
  => \A i \in 1..Len(last.before) :
       IsStakeFor(batch[i], NewCall.arguments[5].value)
       => \E k \in (i + 1)..Len(last.before) : IsUnstakeFor(batch[k], NewCall.arguments[5].value)

\* C18 amended: stakeObligationQuick appends a stake call only for a position that
\* resolves as unlocked or when an unstake call is queued in the batch; for a position
\* that resolves as unlocked it appends one stake call on every invocation, also when a
\* stake call for that position is already queued.
C18_StakeFollowsLockNotBatch ==
  (last.op = "stakeObligationQuick" /\ Resolved.err = None)
  => /\ Len(batch) > Len(last.before)
          => (~Resolved.obligationLocked \/ HasUnstakeCall(last.before))
     /\ (~Resolved.obligationLocked
          /\ \E i \in 1..Len(last.before) : IsStakeFor(last.before[i], Resolved.obligationId))
          => /\ AppendedOne
             /\ IsStakeFor(NewCall, Resolved.obligationId)

\* two stake calls for one unlocked position, no unstake between them
C18_Witness ==
  /\ last.op = "stakeObligationQuick"
  /\ Resolved.err = None
  /\ ~Resolved.obligationLocked
  /\ Len(batch) = 2
  /\ IsStakeFor(batch[1], Resolved.obligationId)
  /\ IsStakeFor(batch[2], Resolved.obligationId)

\* C20: in every call appended by stakeObligationQuick, unstakeObligationQuick or
\* stakeObligationWithVeScaQuick after the resolution enumerated the sender's
\* obligations (id or key omitted), the id argument and the key argument are the id
\* and the key of one obligation the sender owns.
C20_IdAndKeyOfOneObligation ==
  (/\ last.op \in ResolvingOps
   /\ (last.obligation = None \/ last.obligationKey = None)
   /\ Len(batch) > Len(last.before))
  => \E i \in 1..Len(owned) :
       /\ NewCall.arguments[5] = Object(owned[i])
       /\ NewCall.arguments[4] = Object(KeyOf[owned[i]])

\* the key alone is supplied and selects the second listed obligation
C20_Witness ==
  /\ last.op \in ResolvingOps
  /\ last.obligation = None
  /\ last.obligationKey = "0xL"
  /\ owned = <<"0xP", "0xQ">>
  /\ Len(batch) > Len(last.before)
  /\ NewCall.arguments[5] = Object("0xQ")
  /\ NewCall.arguments[4] = Object("0xL")

\* the listed obligation the claimed rule selects for a supplied id and key: the first
\* whose id or key equals a supplied one, else the first listed
FirstMatch(obligationId, obligationKey) ==
  LET hits == {i \in 1..Len(owned) : owned[i] = obligationId \/ KeyOf[owned[i]] = obligationKey}
  IN IF hits = {} THEN owned[1] ELSE owned[CHOOSE i \in hits : \A j \in hits : i <= j]

C14_WitnessAsGiven ==
  /\ probe.fn = "requireObligationInfo"
  /\ probe.obligationId = "0xP"
  /\ probe.obligationKey = "0xL"
  /\ owned = << >>
  /\ probe.info.err = None
  /\ probe.info.obligationKey = "0xL"

\* a veScaKey argument was passed
KeyGiven == probe.nparams = 3 /\ probe.veScaKey.typeof # "undefined"

\* C19: requireVeSca returns the account fetched for a given key (None when the fetch
\* finds nothing) and never enumerates when a key was given; without a key it returns
\* the first veSCA listed for the sender, or None when the sender owns none.
C19_KeyGivenIsFetched ==
  probe.fn = "requireVeSca"
  => IF KeyGiven
     THEN probe.veSca = (IF probe.veScaKey.value \in veScaTable THEN probe.veScaKey.value ELSE None)
     ELSE probe.veSca = (IF Len(veScaOwned) = 0 THEN None ELSE veScaOwned[1])
====
